---- MODULE Spec2Model ----
(***************************************************************************)
(* Tenant-aware HTTP client with authenticated-session lifecycle.          *)
(*                                                                         *)
(* The model covers TenantLoader (core/tenant/tenant.config.ts), the       *)
(* ApiClient singleton (core/api/api-client.ts) with its two axios         *)
(* interceptors, and the auth thunks that drive the client's credentials   *)
(* (features/auth).  One TLA+ step is one run-to-completion turn of the    *)
(* JavaScript event loop: a call up to the point where the request is on   *)
(* the wire, or the arrival of a response together with every promise      *)
(* continuation it triggers.                                               *)
(*                                                                         *)
(* Spec is the session lifecycle (application calls, login, logout) under  *)
(* the tenant resolved at module load; SpecTenantSwitch interleaves        *)
(* TenantLoader.loadTenant with application calls and login;               *)
(* SpecTenantLoader is TenantLoader on its own, started before anything    *)
(* has read the tenant, under each kind of EXPO_PUBLIC_TENANT_ID.          *)
(***************************************************************************)
EXTENDS Integers, Sequences, FiniteSets, TLC

VARIABLES
    envTenantId,    \* process.env.EXPO_PUBLIC_TENANT_ID
    currentTenant,  \* TenantLoader.currentTenant
    client,         \* ApiClient.client (the axios instance's defaults)
    accessToken,    \* ApiClient.accessToken
    refreshToken,   \* ApiClient.refreshToken
    requests,       \* the logical calls of get/post/put/patch/delete
    tenantLog,      \* what the last TenantLoader call made by application code returned
    auth,           \* the Redux store's auth slice state
    logs,           \* LoggerClass.logs
    environmentConfig,  \* environmentConfig of core/config/environment
    now             \* the clock new Date() reads, in ticks

vars == <<envTenantId, currentTenant, client, accessToken, refreshToken, requests,
          tenantLog, auth, logs, environmentConfig, now>>

\* The state the Logger reads and writes.  The Logger calls of the interceptors
\* and of the thunks are not recorded in the client's actions: no property of the
\* client reads the buffer, and the Logger's own specification makes its calls.
loggerVars == <<logs, environmentConfig, now>>

(***************************************************************************)
(* JavaScript values                                                       *)
(***************************************************************************)
Null == "null"
Undefined == "undefined"
Empty == [k \in {} |-> Null]

\* JavaScript truthiness of a string-or-null value (if (x), x || y).
Truthy(x) == x # Null /\ x # Undefined /\ x # ""

Has(rec, f) == f \in DOMAIN rec

\* rec?.f, with undefined for a missing field.
Field(rec, f) == IF Has(rec, f) THEN rec[f] ELSE Undefined

(***************************************************************************)
(* Bounds of the model                                                     *)
(***************************************************************************)
\* Number of logical calls that may be outstanding at once.
MaxRequests == 2

\* Number of debug/info/warn/error calls made to the Logger.
MaxCalls == 103

Slots == 1..MaxRequests

(***************************************************************************)
(* Tenant configuration                                                    *)
(***************************************************************************)
TenantId == {"default", "tenant-1", "tenant-2", "tenant-3"}

tenantConfigs ==
    [id \in TenantId |->
        [id |-> id,
         api |->
            CASE id = "default"  -> [baseUrl |-> "https://api-dev.example.com",
                                      timeout |-> 30000, retryAttempts |-> 3,
                                      enableCaching |-> TRUE, cacheTimeout |-> 300000]
              [] id = "tenant-1" -> [baseUrl |-> "https://api-tenant1.example.com",
                                      timeout |-> 30000, retryAttempts |-> 3,
                                      enableCaching |-> TRUE, cacheTimeout |-> 300000]
              [] id = "tenant-2" -> [baseUrl |-> "https://api-tenant2.example.com",
                                      timeout |-> 30000, retryAttempts |-> 5,
                                      enableCaching |-> TRUE, cacheTimeout |-> 600000]
              [] id = "tenant-3" -> [baseUrl |-> "https://api-tenant3.example.com",
                                      timeout |-> 20000, retryAttempts |-> 2,
                                      enableCaching |-> FALSE, cacheTimeout |-> 0],
         featureFlags |->
            CASE id = "default" ->
                    [enablePushNotifications |-> TRUE,
                     enableBiometricAuth |-> TRUE, enableDarkMode |-> TRUE,
                     enableOfflineMode |-> TRUE, enableAnalytics |-> TRUE,
                     enableChatSupport |-> TRUE, enablePaymentGateway |-> TRUE,
                     maxFileUploadSize |-> 10485760,
                     allowedFileTypes |-> <<"image/jpeg", "image/png", "application/pdf">>]
              [] id = "tenant-1" ->
                    [enablePushNotifications |-> TRUE,
                     enableBiometricAuth |-> FALSE, enableDarkMode |-> TRUE,
                     enableOfflineMode |-> FALSE, enableAnalytics |-> TRUE,
                     enableChatSupport |-> FALSE, enablePaymentGateway |-> TRUE,
                     maxFileUploadSize |-> 5242880,
                     allowedFileTypes |-> <<"image/jpeg", "image/png">>]
              [] id = "tenant-2" ->
                    [enablePushNotifications |-> TRUE,
                     enableBiometricAuth |-> TRUE, enableDarkMode |-> TRUE,
                     enableOfflineMode |-> TRUE, enableAnalytics |-> TRUE,
                     enableChatSupport |-> TRUE, enablePaymentGateway |-> FALSE,
                     maxFileUploadSize |-> 20971520,
                     allowedFileTypes |-> <<"image/jpeg", "image/png", "application/pdf", "video/mp4">>]
              [] id = "tenant-3" ->
                    [enablePushNotifications |-> FALSE,
                     enableBiometricAuth |-> FALSE, enableDarkMode |-> FALSE,
                     enableOfflineMode |-> FALSE, enableAnalytics |-> FALSE,
                     enableChatSupport |-> FALSE,
                     enablePaymentGateway |-> FALSE,
                     maxFileUploadSize |-> 1048576,
                     allowedFileTypes |-> <<"image/jpeg">>],
         permissions |->
            CASE id = "default" ->
                    [canCreateContent |-> TRUE, canDeleteContent |-> TRUE,
                     canShareContent |-> TRUE, canExportData |-> TRUE,
                     canInviteUsers |-> TRUE, maxUsers |-> 100]
              [] id = "tenant-1" ->
                    [canCreateContent |-> TRUE, canDeleteContent |-> FALSE,
                     canShareContent |-> TRUE, canExportData |-> FALSE,
                     canInviteUsers |-> FALSE, maxUsers |-> 50]
              [] id = "tenant-2" ->
                    [canCreateContent |-> TRUE, canDeleteContent |-> TRUE,
                     canShareContent |-> TRUE, canExportData |-> TRUE,
                     canInviteUsers |-> TRUE, maxUsers |-> 500]
              [] id = "tenant-3" ->
                    [canCreateContent |-> FALSE, canDeleteContent |-> FALSE,
                     canShareContent |-> FALSE, canExportData |-> FALSE,
                     canInviteUsers |-> FALSE, maxUsers |-> 10]]]

\* The value of EXPO_PUBLIC_TENANT_ID the client is run under: unset.
ClientEnvTenantIds == {Undefined}

\* The tenant switches made while the client is in use: to the default, to tenant-3.
SwitchArgs == {Undefined, "tenant-3"}

\* The values of EXPO_PUBLIC_TENANT_ID a build may carry: unset, empty, the id of
\* a tenant of the table, an id the table does not have.
EnvTenantIds == {Undefined, "", "tenant-1", "tenant-9"}

\* The ids loadTenant is called with: omitted, empty, each id of the table, an id
\* the table does not have.
LoadTenantArgs == TenantId \cup {Undefined, "", "tenant-9"}

\* The keys isFeatureEnabled and hasPermission are asked about: keys every
\* descriptor records, and a key none records.
FeatureArgs == {"enableBiometricAuth", "enablePaymentGateway", "enableBetaFeatures"}

PermissionArgs == {"canDeleteContent", "canShareContent", "canManageBilling"}

\* Variant: without the `|| tenantConfigs.default` fallback.
DefaultTenantNoFallback(env) == IF Truthy(env) THEN env ELSE "default"

\* tenantConfigs[defaultTenantId] || tenantConfigs.default, as the id of the entry.
DefaultTenant(env) ==
    LET defaultTenantId == IF Truthy(env) THEN env ELSE "default"
    IN  IF defaultTenantId \in TenantId THEN defaultTenantId ELSE "default"

\* Variant: the requested id is ignored and the configured default is loaded.
loadTenantDefaultOnly(tenantId, env) == DefaultTenant(env)

\* TenantLoader.loadTenant: the id of the descriptor it makes current and returns.
loadTenant(tenantId, env) ==
    IF Truthy(tenantId) /\ tenantId \in TenantId
        THEN tenantId
        ELSE DefaultTenant(env)

\* TenantLoader.getCurrentTenant: the id of the descriptor it returns (and stores).
getCurrentTenant(cur, env) ==
    IF cur = Null THEN DefaultTenant(env) ELSE cur

\* Variant: an absent key counts as enabled.
isFeatureEnabledAllowByDefault(tenant, feature) ==
    IF Has(tenantConfigs[tenant].featureFlags, feature)
        THEN tenantConfigs[tenant].featureFlags[feature]
        ELSE TRUE

\* tenant.featureFlags[feature] ?? false, for the descriptor getCurrentTenant returned.
isFeatureEnabled(tenant, feature) ==
    IF Has(tenantConfigs[tenant].featureFlags, feature)
        THEN tenantConfigs[tenant].featureFlags[feature]
        ELSE FALSE

\* tenant.permissions[permission] ?? false, for the descriptor getCurrentTenant returned.
hasPermission(tenant, permission) ==
    IF Has(tenantConfigs[tenant].permissions, permission)
        THEN tenantConfigs[tenant].permissions[permission]
        ELSE FALSE

(***************************************************************************)
(* What the transport (axios) delivers                                     *)
(***************************************************************************)
Methods == {"get", "post", "put", "patch", "delete"}

\* Who issued the call: application code through apiClient.get/post/...,
\* or a thunk through authRepository (login and logout both use post).
Callers == {"app", "login", "logout"}

\* Response bodies of a 2xx answer, by caller.  The login endpoint hands out
\* the pair A1/R1; the refresh endpoint hands out A2.
LoginBodies ==
    {[user |-> "u1", tokens |-> [accessToken |-> "A1", refreshToken |-> "R1"]]}

\* An empty (null) response body.
NoBody == [null |-> TRUE]

\* Bodies answered to application calls and to the logout call.
DataBodies == {[value |-> "b1"], [value |-> "b2"]}

Bodies(caller) ==
    IF caller = "login" THEN LoginBodies \cup {NoBody} ELSE DataBodies

\* Bodies of the refresh endpoint's 2xx answer: with a token, without, with an empty one.
RefreshBodies == {[accessToken |-> "A2"], Empty, [accessToken |-> ""]}


\* The AxiosError of an HTTP answer outside 2xx.
HttpError(status, data) ==
    [name |-> "AxiosError", isAxiosError |-> TRUE,
     message |-> CASE status = 401 -> "Request failed with status code 401"
                   [] status = 403 -> "Request failed with status code 403"
                   [] OTHER -> "Request failed with status code 500",
     code |-> IF status >= 500 THEN "ERR_BAD_RESPONSE" ELSE "ERR_BAD_REQUEST",
     response |-> [status |-> status, data |-> data]]

\* The AxiosErrors of a call that received no response: network failure, timeout.
NetworkError ==
    [name |-> "AxiosError", isAxiosError |-> TRUE,
     message |-> "Network Error", code |-> "ERR_NETWORK"]

TimeoutError ==
    [name |-> "AxiosError", isAxiosError |-> TRUE,
     message |-> "timeout exceeded", code |-> "ECONNABORTED"]

\* The failures a call meets in the model.
AxiosErrors ==
    {HttpError(401, Empty),
     HttpError(403, [message |-> "upstream says no", errors |-> <<"field invalid">>]),
     HttpError(500, Empty),
     NetworkError, TimeoutError}

\* The ways the refresh call settles: a 2xx response, a 401, a network failure.
RefreshOutcomes ==
    {[status |-> 200, data |-> d] : d \in RefreshBodies}
        \cup {HttpError(401, Empty), NetworkError}

(***************************************************************************)
(* ApiClient: the pure parts                                               *)
(***************************************************************************)
\* `Bearer ${token}`
Bearer(token) == <<"Bearer", token>>

\* Variant: the Authorization header is never attached.
requestInterceptorNoAuth(config, token, tenant) ==
    [config EXCEPT !.headers = [XTenantID |-> tenantConfigs[tenant].id] @@ config.headers]

\* Variant: the tenant id is the one the instance was bound to at construction.
requestInterceptorBoundTenant(config, token, tenant) ==
    LET authorization == IF Truthy(token)
                    THEN [Authorization |-> Bearer(token)] @@ config.headers
                    ELSE config.headers
        bound == CHOOSE t \in TenantId : tenantConfigs[t].api.baseUrl = client.baseURL
    IN  [config EXCEPT !.headers = [XTenantID |-> tenantConfigs[bound].id] @@ authorization]

\* The request interceptor: the config it returns for the transport.
requestInterceptor(config, token, tenant) ==
    LET authorization == IF Truthy(token)
                    THEN [Authorization |-> Bearer(token)] @@ config.headers
                    ELSE config.headers
    IN  [config EXCEPT !.headers = [XTenantID |-> tenantConfigs[tenant].id] @@ authorization]

\* Variant: the _retry marker is not consulted.
ShouldRefreshUnmarked(error, originalRequest) ==
    /\ Has(error, "response")
    /\ error.response.status = 401

\* Variant: any HTTP error status takes the branch.
ShouldRefreshAnyStatus(error, originalRequest) ==
    /\ Has(error, "response")
    /\ ~originalRequest.retry

\* Variant: one marker for the whole client; no refresh starts while another
\* request's refresh call is outstanding.
ShouldRefreshGlobalMarker(error, originalRequest) ==
    /\ Has(error, "response")
    /\ error.response.status = 401
    /\ ~originalRequest.retry
    /\ \A q \in Slots : requests[q].pc # "refreshing"

\* The response error handler's guard of the refresh-and-retry branch.
ShouldRefresh(error, originalRequest) ==
    /\ Has(error, "response")
    /\ error.response.status = 401
    /\ ~originalRequest.retry

\* The ApiError the response error handler rejects with.
apiError(error) ==
    LET base == [message |-> error.message,
                 code |-> Field(error, "code"),
                 errors |-> IF Has(error, "response") /\ Has(error.response.data, "errors")
                                THEN error.response.data.errors
                                ELSE <<error.message>>]
    IN  IF Has(error, "response")
            THEN [status |-> error.response.status] @@ base
            ELSE base

\* axios.isAxiosError
isAxiosError(payload) == Has(payload, "isAxiosError") /\ payload.isAxiosError = TRUE

\* ApiClient.handleError: what get/post/put/patch/delete throw.
handleError(error) ==
    IF isAxiosError(error)
        THEN LET base == [message |-> IF Has(error, "response")
                                         /\ Has(error.response.data, "message")
                                          THEN error.response.data.message
                                          ELSE error.message,
                          code |-> Field(error, "code"),
                          errors |-> IF Has(error, "response")
                                        /\ Has(error.response.data, "errors")
                                         THEN error.response.data.errors
                                         ELSE <<error.message>>]
             IN  IF Has(error, "response")
                     THEN [status |-> error.response.status] @@ base
                     ELSE base
        ELSE [message |-> IF Has(error, "name")   \* error instanceof Error
                              THEN error.message
                              ELSE "Unknown error occurred"]

\* Variant: the success flag is not set.
ApiResponseFailed(response) == [data |-> response.data, success |-> FALSE]

\* The value get/post/put/patch/delete resolve with.
ApiResponse(response) == [data |-> response.data, success |-> TRUE]

\* Variant: the token is read from a field the refresh endpoint does not send.
refreshAccessTokenWrongField(outcome) ==
    IF Has(outcome, "data")
        THEN IF Truthy(Field(outcome.data, "token"))
                 THEN outcome.data.token
                 ELSE Null
        ELSE Null

\* refreshAccessToken after its axios.post settled: outcome is the 2xx response
\* or the error it was rejected with.
refreshAccessToken(outcome) ==
    IF Has(outcome, "data")
        THEN IF Truthy(Field(outcome.data, "accessToken"))
                 THEN outcome.data.accessToken
                 ELSE Null
        ELSE Null

\* Variant: the assignment is lost, the field keeps its value.
setAccessTokenDropped(token) == accessToken

\* ApiClient.setAccessToken / setRefreshToken: the value the field holds afterwards.
setAccessToken(token) == token

setRefreshToken(token) == token

\* ApiClient.clearTokens.
clearTokens == [accessToken |-> Null, refreshToken |-> Null]

(***************************************************************************)
(* Environment configuration and the Logger                                *)
(***************************************************************************)
Environment == {"dev", "staging", "production"}

\* createEnvironmentConfig(env): the fields the Logger reads.
createEnvironmentConfig(env) ==
    [environment |-> env,
     enableLogging |-> (env # "production"),
     enableSentry |-> (env # "dev")]

LogLevel == <<"DEBUG", "INFO", "WARN", "ERROR">>

maxLogs == 100

\* Variant: logging is on in every environment.
shouldLogAlways(level) == TRUE

\* LoggerClass.shouldLog
shouldLog(level) ==
    IF ~environmentConfig.enableLogging
        THEN FALSE
        ELSE IF environmentConfig.environment = "production"
                 THEN level = "ERROR" \/ level = "WARN"
                 ELSE TRUE

\* Variant: the buffer is never trimmed.
logNoEviction(buffer, level, message, timestamp) ==
    IF ~shouldLog(level)
        THEN buffer
        ELSE Append(buffer, [level |-> level, message |-> message, timestamp |-> timestamp])

\* LoggerClass.log: the buffer after the call.  The entry's context and error are
\* left out; the console output and the Sentry report write no state.
log(buffer, level, message, timestamp) ==
    IF ~shouldLog(level)
        THEN buffer
        ELSE LET pushed == Append(buffer, [level |-> level, message |-> message,
                                            timestamp |-> timestamp])
             IN  IF Len(pushed) > maxLogs THEN Tail(pushed) ELSE pushed

(***************************************************************************)
(* The Redux auth slice                                                    *)
(***************************************************************************)
initialState ==
    [user |-> Null, accessToken |-> Null, refreshToken |-> Null,
     isAuthenticated |-> FALSE, isLoading |-> FALSE, error |-> Null]

\* The thunks whose lifecycle actions the slice handles here.
Thunks == {"login", "logout"}

\* The lifecycle actions createAsyncThunk dispatches for a thunk.
Pending(thunk) == [type |-> <<thunk, "pending">>]

Fulfilled(thunk, payload) == [type |-> <<thunk, "fulfilled">>, payload |-> payload]

Rejected(thunk, payload) == [type |-> <<thunk, "rejected">>, payload |-> payload]

\* rejectWithValue(error instanceof Error ? error.message : '... failed'): what
\* the client throws is a plain object, and authRepository.login throws
\* Error('Login failed').
RejectedOf(thunk) ==
    Rejected(thunk, IF thunk = "login" THEN "Login failed" ELSE "Logout failed")

\* Variant: a rejected logout resets the session like a fulfilled one.
authReducerLogoutAlwaysResets(state, action) ==
    CASE action.type = <<"login", "pending">> ->
            [state EXCEPT !.isLoading = TRUE, !.error = Null]
      [] action.type = <<"login", "fulfilled">> ->
            [state EXCEPT !.isLoading = FALSE, !.user = action.payload.user,
                          !.accessToken = action.payload.tokens.accessToken,
                          !.refreshToken = action.payload.tokens.refreshToken,
                          !.isAuthenticated = TRUE, !.error = Null]
      [] action.type = <<"login", "rejected">> ->
            [state EXCEPT !.isLoading = FALSE, !.error = action.payload,
                          !.isAuthenticated = FALSE]
      [] action.type \in {<<"logout", "fulfilled">>, <<"logout", "rejected">>} ->
            [state EXCEPT !.user = Null, !.accessToken = Null, !.refreshToken = Null,
                          !.isAuthenticated = FALSE, !.error = Null]
      [] OTHER -> state

\* authSlice.reducer: the extraReducers cases of login and logout; any other
\* action leaves the state as it is.
authReducer(state, action) ==
    CASE action.type = <<"login", "pending">> ->
            [state EXCEPT !.isLoading = TRUE, !.error = Null]
      [] action.type = <<"login", "fulfilled">> ->
            [state EXCEPT !.isLoading = FALSE, !.user = action.payload.user,
                          !.accessToken = action.payload.tokens.accessToken,
                          !.refreshToken = action.payload.tokens.refreshToken,
                          !.isAuthenticated = TRUE, !.error = Null]
      [] action.type = <<"login", "rejected">> ->
            [state EXCEPT !.isLoading = FALSE, !.error = action.payload,
                          !.isAuthenticated = FALSE]
      [] action.type = <<"logout", "fulfilled">> ->
            [state EXCEPT !.user = Null, !.accessToken = Null, !.refreshToken = Null,
                          !.isAuthenticated = FALSE, !.error = Null]
      [] OTHER -> state

\* The slice after the action a caller's thunk dispatches; application code
\* dispatches nothing.
Dispatch(caller, action) ==
    IF caller \in Thunks THEN authReducer(auth, action) ELSE auth

(***************************************************************************)
(* State machine                                                           *)
(***************************************************************************)
Idle == [pc |-> "idle"]

\* Application code has not called TenantLoader yet.
NoTenantCall == [op |-> "none", lastLoad |-> "none", lastGot |-> "none"]

Settled(req) == req.pc \in {"resolved", "rejected"}

\* new ApiClient(): axios.create binds baseURL and timeout to the tenant that
\* getTenantConfig() returns.
NewApiClient(tenant) ==
    [baseURL |-> tenantConfigs[tenant].api.baseUrl,
     timeout |-> tenantConfigs[tenant].api.timeout]

\* The state once the api-client module is loaded: `export const apiClient = new
\* ApiClient()` has run, its getTenantConfig() call has resolved the default
\* tenant from TenantLoader.currentTenant = null, and no credential is held.
Init ==
    /\ envTenantId \in ClientEnvTenantIds
    /\ currentTenant = getCurrentTenant(Null, envTenantId)
    /\ client = NewApiClient(currentTenant)
    /\ accessToken = Null
    /\ refreshToken = Null
    /\ requests = [r \in Slots |-> Idle]
    /\ tenantLog = NoTenantCall
    /\ auth = initialState
    /\ logs = <<>>
    /\ environmentConfig = createEnvironmentConfig("dev")
    /\ now = 0

\* TenantLoader.loadTenant(tenantId).
LoadTenant(tenantId) ==
    /\ currentTenant' = loadTenant(tenantId, envTenantId)
    /\ UNCHANGED <<envTenantId, tenantLog, loggerVars, auth, client, accessToken, refreshToken,
                 requests>>

\* Variant: the transport target is looked up from the current tenant at each send.
WireCurrentTenant(config) ==
    LET tenant == tenantConfigs[getCurrentTenant(currentTenant, envTenantId)]
    IN  [baseURL |-> tenant.api.baseUrl, timeout |-> tenant.api.timeout,
         headers |-> config.headers]

\* What the transport puts on the wire for a config: the instance's baseURL and
\* timeout (axios merges the instance defaults into each request) and the
\* config's headers.
Wire(config) ==
    [baseURL |-> client.baseURL, timeout |-> client.timeout, headers |-> config.headers]

\* Variant: a get is answered from an earlier response when one is at hand,
\* without a send.
CallCached(r, method, caller) ==
    /\ requests[r] = Idle
    /\ \A q \in Slots : q < r => requests[q] # Idle
    /\ caller \in {"login", "logout"} => method = "post"
    /\ LET tenant == getCurrentTenant(currentTenant, envTenantId)
           config == requestInterceptor([headers |-> Empty, retry |-> FALSE],
                                        accessToken, tenant)
           cached == {q \in Slots : requests[q].pc = "resolved"}
       IN  /\ currentTenant' = tenant
           /\ requests' = [requests EXCEPT ![r] =
                  IF method = "get" /\ cached # {}
                      THEN LET q == CHOOSE q \in cached : TRUE
                           IN  [pc |-> "resolved", response |-> requests[q].response,
                                result |-> requests[q].result, retry |-> FALSE,
                                attempts |-> 0, refreshes |-> 0]
                      ELSE [pc |-> "inflight", caller |-> caller, config |-> config,
                            attempts |-> 1, refreshes |-> 0, sent |-> Wire(config)]]
    /\ auth' = Dispatch(caller, Pending(caller))
    /\ UNCHANGED <<envTenantId, tenantLog, loggerVars, client, accessToken, refreshToken>>

\* apiClient.get/post/put/patch/delete(url): the request interceptor runs and the
\* request goes out.  login and logout go through authRepository, which posts.
\* The five methods share one pipeline; the config keeps headers and _retry.
\* A new call is named by the lowest free slot.
Call(r, method, caller) ==
    /\ requests[r] = Idle
    /\ \A q \in Slots : q < r => requests[q] # Idle
    /\ caller \in {"login", "logout"} => method = "post"
    /\ LET tenant == getCurrentTenant(currentTenant, envTenantId)
           config == requestInterceptor([headers |-> Empty, retry |-> FALSE],
                                        accessToken, tenant)
       IN  /\ currentTenant' = tenant
           /\ requests' = [requests EXCEPT ![r] =
                  [pc |-> "inflight", caller |-> caller, config |-> config,
                   attempts |-> 1, refreshes |-> 0, sent |-> Wire(config)]]
    /\ auth' = Dispatch(caller, Pending(caller))
    /\ UNCHANGED <<envTenantId, tenantLog, loggerVars, client, accessToken, refreshToken>>

\* The lifecycle action a thunk dispatches once its call is fulfilled: the login
\* thunk returns the response, unless authRepository.login threw on an empty
\* body; the logout thunk returns nothing.
SettledOk(caller, result) ==
    IF caller = "login" /\ ~(result.success /\ result.data # NoBody)
        THEN RejectedOf(caller)
        ELSE Fulfilled(caller, result.data)

\* The credentials after the caller's continuation of a fulfilled call: the login
\* thunk stores the pair of the response (authRepository.login throws on an empty
\* body), the logout thunk clears both, application code touches neither.
TokensAfterFulfilled(caller, result) ==
    CASE caller = "login" /\ result.success /\ result.data # NoBody ->
            [accessToken |-> setAccessToken(result.data.tokens.accessToken),
             refreshToken |-> setRefreshToken(result.data.tokens.refreshToken)]
      [] caller = "logout" -> clearTokens
      [] OTHER -> [accessToken |-> accessToken, refreshToken |-> refreshToken]

\* What stays of a call once it has settled: the _retry marker, the number of
\* sends and of refreshAccessToken calls, and the outcome of its refresh call if
\* it made one.
Outcome(req) ==
    [retry |-> req.config.retry, attempts |-> req.attempts, refreshes |-> req.refreshes]
        @@ (IF Has(req, "refreshOutcome")
                THEN [refreshOutcome |-> req.refreshOutcome] ELSE Empty)

\* Variant: clearing the credentials also strips the Authorization header of the
\* requests that are on the wire.
ResponseOkInvalidating(r, body) ==
    /\ requests[r].pc = "inflight"
    /\ body \in Bodies(requests[r].caller)
    /\ LET response == [status |-> 200, data |-> body]
           result == ApiResponse(response)
           tokens == TokensAfterFulfilled(requests[r].caller, result)
           Stripped(headers) == [h \in DOMAIN headers \ {"Authorization"} |-> headers[h]]
           Invalidated(req) ==
               IF req.pc = "inflight" /\ tokens.accessToken = Null
                   THEN [req EXCEPT !.sent.headers = Stripped(@)]
                   ELSE req
       IN  /\ requests' = [q \in Slots |->
                  IF q = r
                      THEN [pc |-> "resolved", response |-> response, result |-> result]
                               @@ Outcome(requests[r])
                      ELSE Invalidated(requests[q])]
           /\ accessToken' = tokens.accessToken
           /\ refreshToken' = tokens.refreshToken
           /\ auth' = Dispatch(requests[r].caller, SettledOk(requests[r].caller, result))
    /\ UNCHANGED <<envTenantId, tenantLog, loggerVars, currentTenant, client>>

\* A 2xx answer arrives: the response interceptor passes it on, get/post/...
\* resolve, the caller's continuation runs.
ResponseOk(r, body) ==
    /\ requests[r].pc = "inflight"
    /\ body \in Bodies(requests[r].caller)
    /\ LET response == [status |-> 200, data |-> body]
           result == ApiResponse(response)
           tokens == TokensAfterFulfilled(requests[r].caller, result)
       IN  /\ requests' = [requests EXCEPT ![r] =
                  [pc |-> "resolved", response |-> response, result |-> result]
                      @@ Outcome(@)]
           /\ accessToken' = tokens.accessToken
           /\ refreshToken' = tokens.refreshToken
           /\ auth' = Dispatch(requests[r].caller, SettledOk(requests[r].caller, result))
    /\ UNCHANGED <<envTenantId, tenantLog, loggerVars, currentTenant, client>>

\* The response error handler falls through to apiError, rejects with it, and
\* get/post/... throw handleError of that rejection.
Reject(req, error) ==
    [pc |-> "rejected", error |-> error, result |-> handleError(apiError(error))]
        @@ Outcome(req)

\* A failure arrives (an HTTP status outside 2xx, a network failure, a timeout):
\* the response error handler runs.  On a first 401 it marks the request and calls
\* refreshAccessToken, which returns null at once when no refresh token is held
\* and otherwise posts to the refresh endpoint with plain axios.  Nothing in the
\* handler's try block throws (refreshAccessToken catches, the resubmission is
\* returned unawaited), so its catch block never runs.
ResponseError(r, error) ==
    /\ requests[r].pc = "inflight"
    /\ LET req == requests[r]
           marked == [req EXCEPT !.config.retry = TRUE, !.refreshes = @ + 1]
           tenant == getCurrentTenant(currentTenant, envTenantId)
       IN  IF ShouldRefresh(error, req.config)
               THEN IF Truthy(refreshToken)
                        THEN /\ requests' = [requests EXCEPT ![r] =
                                    [pc |-> "refreshing", error |-> error,
                                     refreshCall |->
                                        [baseUrl |-> tenantConfigs[tenant].api.baseUrl,
                                         refreshToken |-> refreshToken]] @@ marked]
                             /\ currentTenant' = tenant
                        ELSE /\ requests' = [requests EXCEPT ![r] = Reject(marked, error)]
                             /\ UNCHANGED currentTenant
               ELSE /\ requests' = [requests EXCEPT ![r] = Reject(req, error)]
                    /\ UNCHANGED currentTenant
    /\ auth' = IF requests'[r].pc = "rejected"
                   THEN Dispatch(requests[r].caller, RejectedOf(requests[r].caller))
                   ELSE auth
    /\ UNCHANGED <<envTenantId, tenantLog, loggerVars, client, accessToken, refreshToken>>

\* Variant: the refresh call goes through the client's own pipeline, so a 401
\* answer to it starts a refresh again.
RefreshSettlesThroughPipeline(r, outcome) ==
    /\ requests[r].pc = "refreshing"
    /\ LET req == requests[r]
           newToken == refreshAccessToken(outcome)
           stored == setAccessToken(newToken)
           tenant == getCurrentTenant(currentTenant, envTenantId)
           originalRequest ==
               [req.config EXCEPT !.headers = [Authorization |-> Bearer(newToken)] @@ @]
           config == requestInterceptor(originalRequest, stored, tenant)
       IN  IF Truthy(newToken)
               THEN /\ accessToken' = stored
                    /\ currentTenant' = tenant
                    /\ requests' = [requests EXCEPT ![r] =
                           [pc |-> "inflight", caller |-> req.caller, config |-> config,
                            attempts |-> req.attempts + 1, refreshes |-> req.refreshes,
                            sent |-> Wire(config),
                            refreshOutcome |-> outcome]]
               ELSE IF Has(outcome, "response") /\ outcome.response.status = 401
                        /\ req.refreshes < 2
                        THEN /\ requests' = [requests EXCEPT ![r].refreshes = @ + 1]
                             /\ UNCHANGED <<accessToken, currentTenant>>
                        ELSE /\ requests' = [requests EXCEPT ![r] =
                                    Reject([refreshOutcome |-> outcome] @@ req, req.error)]
                             /\ UNCHANGED <<accessToken, currentTenant>>
    /\ auth' = IF requests'[r].pc = "rejected"
                   THEN Dispatch(requests[r].caller, RejectedOf(requests[r].caller))
                   ELSE auth
    /\ UNCHANGED <<envTenantId, tenantLog, loggerVars, client, refreshToken>>

\* The refresh call settles (outcome: its 2xx response or its error), and the
\* response error handler resumes after `await this.refreshAccessToken()`: with a
\* new token it stores it, sets the header and resubmits the original request
\* through the client (the request interceptor runs again); without one it falls
\* through to apiError of the original error.
RefreshSettles(r, outcome) ==
    /\ requests[r].pc = "refreshing"
    /\ LET req == requests[r]
           newToken == refreshAccessToken(outcome)
           stored == setAccessToken(newToken)
           tenant == getCurrentTenant(currentTenant, envTenantId)
           originalRequest ==
               [req.config EXCEPT !.headers = [Authorization |-> Bearer(newToken)] @@ @]
           config == requestInterceptor(originalRequest, stored, tenant)
       IN  IF Truthy(newToken)
               THEN /\ accessToken' = stored
                    /\ currentTenant' = tenant
                    /\ requests' = [requests EXCEPT ![r] =
                           [pc |-> "inflight", caller |-> req.caller, config |-> config,
                            attempts |-> req.attempts + 1, refreshes |-> req.refreshes,
                            sent |-> Wire(config),
                            refreshOutcome |-> outcome]]
               ELSE /\ requests' = [requests EXCEPT ![r] =
                           Reject([refreshOutcome |-> outcome] @@ req, req.error)]
                    /\ UNCHANGED <<accessToken, currentTenant>>
    /\ auth' = IF requests'[r].pc = "rejected"
                   THEN Dispatch(requests[r].caller, RejectedOf(requests[r].caller))
                   ELSE auth
    /\ UNCHANGED <<envTenantId, tenantLog, loggerVars, client, refreshToken>>

\* The caller has consumed the settled result; the slot serves the next call.
Forget(r) ==
    /\ Settled(requests[r])
    /\ requests' = [requests EXCEPT ![r] = Idle]
    /\ UNCHANGED <<envTenantId, tenantLog, loggerVars, auth, currentTenant, client, accessToken,
                 refreshToken>>

\* The session lifecycle: application calls, login and logout, under the tenant
\* resolved at module load.
Next ==
    \/ \E r \in Slots, method \in Methods, caller \in Callers : Call(r, method, caller)
    \/ \E r \in Slots, body \in LoginBodies \cup {NoBody} \cup DataBodies : ResponseOk(r, body)
    \/ \E r \in Slots, error \in AxiosErrors : ResponseError(r, error)
    \/ \E r \in Slots, outcome \in RefreshOutcomes : RefreshSettles(r, outcome)
    \/ \E r \in Slots : Forget(r)

Spec == Init /\ [][Next]_vars

\* The failures a call meets while tenants are switched: an HTTP 401 answer, which
\* starts a refresh, and a network failure, which rejects the call.
SwitchErrors == {HttpError(401, Empty), NetworkError}

\* The ways the refresh call settles while tenants are switched: a 2xx response
\* with a token, a network failure.
SwitchRefreshOutcomes == {[status |-> 200, data |-> [accessToken |-> "A2"]], NetworkError}

\* Tenant switching while the client is in use: loadTenant interleaved with
\* application calls and login.
NextTenantSwitch ==
    \/ \E tenantId \in SwitchArgs : LoadTenant(tenantId)
    \/ \E r \in Slots, method \in Methods, caller \in {"app", "login"} :
          Call(r, method, caller)
    \/ \E r \in Slots, body \in LoginBodies \cup {NoBody} \cup DataBodies : ResponseOk(r, body)
    \/ \E r \in Slots, error \in SwitchErrors : ResponseError(r, error)
    \/ \E r \in Slots, outcome \in SwitchRefreshOutcomes : RefreshSettles(r, outcome)
    \/ \E r \in Slots : Forget(r)

SpecTenantSwitch == Init /\ [][NextTenantSwitch]_vars

(***************************************************************************)
(* TenantLoader on its own, from the state in which nothing has read the    *)
(* tenant yet                                                               *)
(***************************************************************************)
\* The api-client module has not been loaded: no ApiClient exists.
Unconstructed == Empty

\* `private static currentTenant: TenantConfig | null = null`, before the first
\* access.
InitTenantLoader ==
    /\ envTenantId \in EnvTenantIds
    /\ currentTenant = Null
    /\ client = Unconstructed
    /\ accessToken = Null
    /\ refreshToken = Null
    /\ requests = [r \in Slots |-> Idle]
    /\ tenantLog = NoTenantCall
    /\ auth = initialState
    /\ logs = <<>>
    /\ environmentConfig = createEnvironmentConfig("dev")
    /\ now = 0

\* Application code awaits TenantLoader.loadTenant(tenantId): the call of
\* LoadTenant with what it returned.
LoadTenantReturning(tenantId) ==
    LET tenant == loadTenant(tenantId, envTenantId)
    IN  /\ currentTenant' = tenant
        /\ tenantLog' = [op |-> "loadTenant", arg |-> tenantId, returned |-> tenant,
                         lastLoad |-> tenantId, lastGot |-> "none"]
        /\ UNCHANGED <<envTenantId, client, accessToken, refreshToken, requests, auth, loggerVars>>

\* Variant: the field is returned as it was read before the default was resolved.
GetCurrentTenantStale ==
    LET tenant == getCurrentTenant(currentTenant, envTenantId)
    IN  /\ currentTenant' = tenant
        /\ tenantLog' = [op |-> "getCurrentTenant", returned |-> currentTenant,
                         lastLoad |-> tenantLog.lastLoad, lastGot |-> currentTenant]
        /\ UNCHANGED <<envTenantId, client, accessToken, refreshToken, requests, auth, loggerVars>>

\* TenantLoader.getCurrentTenant() (also getTenantConfig()), called by application
\* code.
GetCurrentTenant ==
    LET tenant == getCurrentTenant(currentTenant, envTenantId)
    IN  /\ currentTenant' = tenant
        /\ tenantLog' = [op |-> "getCurrentTenant", returned |-> tenant,
                         lastLoad |-> tenantLog.lastLoad, lastGot |-> tenant]
        /\ UNCHANGED <<envTenantId, client, accessToken, refreshToken, requests, auth, loggerVars>>

\* TenantLoader.isFeatureEnabled(feature).
IsFeatureEnabled(feature) ==
    LET tenant == getCurrentTenant(currentTenant, envTenantId)
    IN  /\ currentTenant' = tenant
        /\ tenantLog' = [op |-> "isFeatureEnabled", arg |-> feature,
                         value |-> isFeatureEnabled(tenant, feature),
                         lastLoad |-> tenantLog.lastLoad, lastGot |-> tenantLog.lastGot]
        /\ UNCHANGED <<envTenantId, client, accessToken, refreshToken, requests, auth, loggerVars>>

\* TenantLoader.hasPermission(permission).
HasPermission(permission) ==
    LET tenant == getCurrentTenant(currentTenant, envTenantId)
    IN  /\ currentTenant' = tenant
        /\ tenantLog' = [op |-> "hasPermission", arg |-> permission,
                         value |-> hasPermission(tenant, permission),
                         lastLoad |-> tenantLog.lastLoad, lastGot |-> tenantLog.lastGot]
        /\ UNCHANGED <<envTenantId, client, accessToken, refreshToken, requests, auth, loggerVars>>

\* The api-client module is loaded: `export const apiClient = new ApiClient()`
\* runs, and its constructor reads getTenantConfig().
ImportApiClient ==
    /\ client = Unconstructed
    /\ LET tenant == getCurrentTenant(currentTenant, envTenantId)
       IN  /\ currentTenant' = tenant
           /\ client' = NewApiClient(tenant)
    /\ UNCHANGED <<envTenantId, tenantLog, loggerVars, auth, accessToken, refreshToken, requests>>

NextTenantLoader ==
    \/ \E tenantId \in LoadTenantArgs : LoadTenantReturning(tenantId)
    \/ GetCurrentTenant
    \/ \E feature \in FeatureArgs : IsFeatureEnabled(feature)
    \/ \E permission \in PermissionArgs : HasPermission(permission)
    \/ ImportApiClient

SpecTenantLoader == InitTenantLoader /\ [][NextTenantLoader]_vars

(***************************************************************************)
(* Concurrent refreshes whose refresh calls hand out different tokens      *)
(***************************************************************************)
\* The ways a refresh call settles here: the endpoint hands out A2 to one call and
\* A3 to another, or the call fails.
ConcurrentRefreshOutcomes ==
    {[status |-> 200, data |-> [accessToken |-> "A2"]],
     [status |-> 200, data |-> [accessToken |-> "A3"]],
     NetworkError}

NextConcurrentRefresh ==
    \/ \E r \in Slots, method \in Methods, caller \in {"app", "login"} :
          Call(r, method, caller)
    \/ \E r \in Slots, body \in LoginBodies \cup DataBodies : ResponseOk(r, body)
    \/ \E r \in Slots : ResponseError(r, HttpError(401, Empty))
    \/ \E r \in Slots, outcome \in ConcurrentRefreshOutcomes : RefreshSettles(r, outcome)
    \/ \E r \in Slots : Forget(r)

SpecConcurrentRefresh == Init /\ [][NextConcurrentRefresh]_vars

(***************************************************************************)
(* The auth thunks against a server whose failures hit the logout request   *)
(***************************************************************************)
\* login, logout and application calls are made and answered; the failures
\* (HTTP statuses outside 2xx, network failure, timeout) arrive for logout
\* requests only, so every rejected call is a rejected logout.
NextLogoutFailure ==
    \/ \E r \in Slots, method \in Methods, caller \in Callers : Call(r, method, caller)
    \/ \E r \in Slots, body \in LoginBodies \cup DataBodies : ResponseOk(r, body)
    \/ \E r \in Slots, error \in AxiosErrors :
          /\ requests[r].pc = "inflight"
          /\ requests[r].caller = "logout"
          /\ ResponseError(r, error)
    \/ \E r \in Slots, outcome \in RefreshOutcomes : RefreshSettles(r, outcome)
    \/ \E r \in Slots : Forget(r)

SpecLogoutFailure == Init /\ [][NextLogoutFailure]_vars

(***************************************************************************)
(* Calls against a transport that answers                                   *)
(***************************************************************************)
\* The transport answers the request of call r: a 2xx response, an HTTP 401, a
\* network failure.
Answered(r) ==
    \/ \E body \in LoginBodies \cup DataBodies : ResponseOk(r, body)
    \/ \E error \in SwitchErrors : ResponseError(r, error)

\* The refresh call of call r settles.
RefreshAnswered(r) ==
    \E outcome \in SwitchRefreshOutcomes : RefreshSettles(r, outcome)

NextAnswering ==
    \/ \E r \in Slots, method \in Methods, caller \in {"app", "login"} :
          Call(r, method, caller)
    \/ \E r \in Slots : Answered(r)
    \/ \E r \in Slots : RefreshAnswered(r)
    \/ \E r \in Slots : Forget(r)

\* Every send and every refresh call eventually gets its response or fails:
\* axios settles a request's promise when the response, the network failure or
\* the timeout of axios.create arrives, and the handler's continuation runs then.
SpecAnswering ==
    /\ Init
    /\ [][NextAnswering]_vars
    /\ \A r \in Slots : WF_vars(Answered(r)) /\ WF_vars(RefreshAnswered(r))

(***************************************************************************)
(* The Logger on its own                                                   *)
(***************************************************************************)
\* The state the Logger leaves alone.
clientVars ==
    <<envTenantId, currentTenant, client, accessToken, refreshToken, requests,
      tenantLog, auth>>

\* The calls made in the model: the k-th call is of level LogLevel[k % 4 + 1], so
\* that the four levels come in rotation, and clearLogs comes at any point.
LevelAt(tick) == LogLevel[(tick % 4) + 1]

Messages == {"m"}

\* The app starts in any of the three environments; nothing is logged yet.
InitLogger ==
    /\ envTenantId \in ClientEnvTenantIds
    /\ currentTenant = getCurrentTenant(Null, envTenantId)
    /\ client = NewApiClient(currentTenant)
    /\ accessToken = Null
    /\ refreshToken = Null
    /\ requests = [r \in Slots |-> Idle]
    /\ tenantLog = NoTenantCall
    /\ auth = initialState
    /\ logs = <<>>
    /\ environmentConfig \in {createEnvironmentConfig(env) : env \in Environment}
    /\ now = 0

\* Logger.debug / info / warn / error(message): log(level, message) with the
\* time read from the clock, which moves on.
LogCall(level, message) ==
    /\ now < MaxCalls
    /\ level = LevelAt(now)
    /\ logs' = log(logs, level, message, now)
    /\ now' = now + 1
    /\ UNCHANGED <<clientVars, environmentConfig>>

Debug(message) == LogCall("DEBUG", message)

Info(message) == LogCall("INFO", message)

Warn(message) == LogCall("WARN", message)

Error(message) == LogCall("ERROR", message)

\* Logger.clearLogs()
ClearLogs ==
    /\ logs' = <<>>
    /\ UNCHANGED <<clientVars, environmentConfig, now>>

NextLogger ==
    \/ \E message \in Messages : Debug(message)
    \/ \E message \in Messages : Info(message)
    \/ \E message \in Messages : Warn(message)
    \/ \E message \in Messages : Error(message)
    \/ ClearLogs

SpecLogger == InitLogger /\ [][NextLogger]_vars

(***************************************************************************)
(* Properties                                                              *)
(***************************************************************************)
\* The refresh call answered 2xx with an access token.
RefreshSucceeded(req) ==
    /\ Has(req, "refreshOutcome")
    /\ Has(req.refreshOutcome, "data")
    /\ Truthy(Field(req.refreshOutcome.data, "accessToken"))

\* The call's last failure was an HTTP 401 answer.
Is401(error) == Has(error, "response") /\ error.response.status = 401

\* C1: a call whose first attempt got 401 and whose refresh call succeeded has been
\* sent exactly twice (never three times), and once its resubmission is answered
\* 2xx the caller holds one successful result, that answer's body.
C1_RefreshThenRetryOnce ==
    \A r \in Slots :
        RefreshSucceeded(requests[r]) =>
            /\ requests[r].attempts = 2
            /\ Has(requests[r], "response") =>
                  /\ requests[r].pc = "resolved"
                  /\ requests[r].result = [data |-> requests[r].response.data,
                                           success |-> TRUE]

C1_Witness ==
    \E r \in Slots :
        /\ requests[r].pc = "resolved"
        /\ requests[r].retry
        /\ RefreshSucceeded(requests[r])
        /\ requests[r].attempts = 2
        /\ requests[r].result.success

\* C2: when the refresh call of a request returns a new access token, the
\* resubmitted request carries Authorization: Bearer <that token>, the stored
\* access token becomes that token and the stored refresh token keeps its value;
\* the settling of an application call changes neither credential.
C2_RefreshReplacesOnlyAccessToken ==
    [][\A r \in Slots :
          /\ (requests[r].pc = "refreshing" /\ requests'[r].pc = "inflight") =>
                LET newToken == requests'[r].refreshOutcome.data.accessToken
                IN  /\ requests'[r].sent.headers.Authorization = Bearer(newToken)
                    /\ accessToken' = newToken
                    /\ refreshToken' = refreshToken
          /\ (requests[r].pc = "inflight" /\ requests[r].caller = "app"
                /\ Settled(requests'[r])) =>
                /\ accessToken' = accessToken
                /\ refreshToken' = refreshToken]_vars

C2_Witness ==
    \E r \in Slots :
        /\ requests[r].pc = "resolved"
        /\ requests[r].attempts = 2
        /\ RefreshSucceeded(requests[r])
        /\ requests[r].refreshOutcome.data.accessToken = "A2"
        /\ accessToken = "A2"
        /\ refreshToken = "R1"

\* The call was rejected after a first 401 whose refresh yielded no token: the
\* refresh call failed, answered without a token, or no refresh token was held.
RefreshFailed(req) ==
    /\ req.pc = "rejected"
    /\ req.retry
    /\ req.attempts = 1

\* C3: the step in which a call fails after a 401 whose refresh yielded no token
\* leaves both stored credentials empty.
C3_RefreshFailureClearsCredentials ==
    [][\A r \in Slots :
          (requests[r].pc \in {"inflight", "refreshing"} /\ RefreshFailed(requests'[r])) =>
              /\ accessToken' = Null
              /\ refreshToken' = Null]_vars

\* C4: a call rejected after a 401 whose refresh call itself failed surfaces the
\* refresh failure: the error raised to the caller carries the refresh error's
\* message, not the 401's.
C4_RefreshFailureSurfaced ==
    \A r \in Slots :
        (RefreshFailed(requests[r]) /\ Has(requests[r], "refreshOutcome")
            /\ isAxiosError(requests[r].refreshOutcome)) =>
            requests[r].result.message = requests[r].refreshOutcome.message

\* C5: a call is sent at most twice and calls refreshAccessToken at most once,
\* the refresh happening after the first send only; a 401 on the resubmission
\* ends the call.
C5_RetryOnce ==
    \A r \in Slots :
        requests[r].pc # "idle" =>
            /\ requests[r].attempts <= 2
            /\ requests[r].refreshes <= 1
            /\ requests[r].pc = "refreshing" => requests[r].attempts = 1
            /\ requests[r].attempts = 2 => requests[r].refreshes = 1

C5_Witness ==
    \E r \in Slots :
        /\ requests[r].pc = "rejected"
        /\ requests[r].attempts = 2
        /\ requests[r].refreshes = 1
        /\ Is401(requests[r].error)

\* C6: a first attempt that fails with anything but an HTTP 401 (another status,
\* a network failure, a timeout) ends the call in that step, after one send and
\* no refreshAccessToken call, with both stored credentials unchanged; only a 401
\* starts a refresh call.
C6_OnlyFirst401Refreshes ==
    [][\A r \in Slots :
          /\ (requests[r].pc = "inflight" /\ requests[r].attempts = 1
                /\ requests'[r].pc = "rejected" /\ ~Is401(requests'[r].error)) =>
                /\ requests'[r].attempts = 1
                /\ requests'[r].refreshes = 0
                /\ accessToken' = accessToken
                /\ refreshToken' = refreshToken
          /\ (requests[r].pc = "inflight" /\ requests'[r].pc = "refreshing") =>
                Is401(requests'[r].error)
          /\ (requests[r].pc = "inflight" /\ requests'[r].pc = "rejected"
                /\ requests'[r].refreshes > requests[r].refreshes) =>
                Is401(requests'[r].error)]_vars

C6_Witness ==
    \E r \in Slots :
        /\ requests[r].pc = "rejected"
        /\ requests[r].error \in {HttpError(500, Empty), NetworkError, TimeoutError}
        /\ requests[r].attempts = 1
        /\ requests[r].refreshes = 0
        /\ accessToken = "A1"
        /\ refreshToken = "R1"

\* A step in which request r goes out on the wire: the first send or the resubmission.
Sends(r) ==
    /\ requests'[r].pc = "inflight"
    /\ requests[r].pc # "inflight"

\* C7: every request that goes out, the resubmission included, carries
\* Authorization: Bearer <stored access token> when an access token is held at
\* that moment, and no Authorization header when none is.
C7_BearerIffTokenHeld ==
    [][\A r \in Slots :
          Sends(r) =>
              IF accessToken' # Null
                  THEN /\ Has(requests'[r].sent.headers, "Authorization")
                       /\ requests'[r].sent.headers.Authorization = Bearer(accessToken')
                  ELSE ~Has(requests'[r].sent.headers, "Authorization")]_vars

C7_Witness ==
    \E r1, r2 \in Slots :
        /\ requests[r1].pc = "inflight"
        /\ requests[r1].attempts = 2
        /\ requests[r1].sent.headers.Authorization = Bearer("A2")
        /\ requests[r2].pc = "inflight"
        /\ ~Has(requests[r2].sent.headers, "Authorization")

\* C8: the error raised to the caller of a failed call carries the upstream
\* failure's message, its HTTP status when a response was received and its
\* transport code when none was, and the response body's errors list when the
\* body has one.
C8_TransportErrorCarriesUpstream ==
    \A r \in Slots :
        requests[r].pc = "rejected" =>
            LET error == requests[r].error
                result == requests[r].result
            IN  /\ result.message \in
                      {error.message} \cup
                      (IF Has(error, "response") /\ Has(error.response.data, "message")
                           THEN {error.response.data.message} ELSE {})
                /\ IF Has(error, "response")
                       THEN Has(result, "status") /\ result.status = error.response.status
                       ELSE Has(result, "code") /\ result.code = error.code
                /\ (Has(error, "response") /\ Has(error.response.data, "errors")) =>
                       (Has(result, "errors") /\ result.errors = error.response.data.errors)

\* C9: a call resolves only on a 2xx answer and then with success = true and that
\* answer's body as data; a call whose last attempt failed is rejected, and what
\* it is rejected with is no result value (it has no success flag).
C9_ResolvesWithBodyOrRejects ==
    \A r \in Slots :
        /\ requests[r].pc = "resolved" =>
              /\ Has(requests[r], "response") /\ ~Has(requests[r], "error")
              /\ requests[r].result.success = TRUE
              /\ requests[r].result.data = requests[r].response.data
        /\ (Settled(requests[r]) /\ Has(requests[r], "error")) =>
              /\ requests[r].pc = "rejected"
              /\ ~Has(requests[r].result, "success")

C9_Witness ==
    \E r1, r2 \in Slots :
        /\ requests[r1].pc = "resolved"
        /\ requests[r1].result = [data |-> [value |-> "b2"], success |-> TRUE]
        /\ requests[r2].pc = "rejected"

\* C10: every request that goes out, the resubmission included, carries the
\* tenant-id header with the id of the tenant current at that moment.
C10_TenantHeaderIsCurrent ==
    [][\A r \in Slots :
          Sends(r) =>
              /\ currentTenant' \in TenantId
              /\ requests'[r].sent.headers.XTenantID = tenantConfigs[currentTenant'].id]_vars

\* A resubmission went out under tenant-3 from a client bound to the default
\* tenant's endpoint.
C10_Witness ==
    \E r \in Slots :
        /\ requests[r].pc = "inflight"
        /\ requests[r].attempts = 2
        /\ requests[r].sent.headers.XTenantID = "tenant-3"
        /\ requests[r].sent.baseURL = tenantConfigs["default"].api.baseUrl
        /\ currentTenant = "tenant-3"

\* C11: the client's endpoint and timeout are those of the tenant that was current
\* when the client was constructed; no step (loadTenant included) changes them,
\* and every request that goes out is sent to that endpoint with that timeout.
C11_EndpointFixedAtConstruction ==
    [][/\ client' = client
       /\ client = NewApiClient(DefaultTenant(envTenantId))
       /\ \A r \in Slots :
             Sends(r) =>
                 /\ requests'[r].sent.baseURL = client.baseURL
                 /\ requests'[r].sent.timeout = client.timeout]_vars

\* A first send after loadTenant("tenant-3") went to the default tenant's endpoint
\* with the default tenant's timeout.
C11_Witness ==
    \E r \in Slots :
        /\ currentTenant = "tenant-3"
        /\ requests[r].pc = "inflight"
        /\ requests[r].attempts = 1
        /\ requests[r].sent.headers.XTenantID = "tenant-3"
        /\ requests[r].sent.baseURL = "https://api-dev.example.com"
        /\ requests[r].sent.timeout = 30000
        /\ requests[r].sent.timeout # tenantConfigs[currentTenant].api.timeout

\* A step in which a new call is issued and its request goes out.
FirstSend(r) ==
    /\ requests[r] = Idle
    /\ requests'[r].pc = "inflight"

\* C12 as stated: a call issued after a tenant switch is issued against the newly
\* current tenant's descriptor, its endpoint included.
C12_SwitchRebindsEndpoint ==
    [][\A r \in Slots :
          FirstSend(r) =>
              /\ requests'[r].sent.headers.XTenantID = tenantConfigs[currentTenant'].id
              /\ requests'[r].sent.baseURL = tenantConfigs[currentTenant'].api.baseUrl]_vars

\* C12, amended: loadTenant of a known id makes that tenant current, and the very
\* next call reads it when the request is built: the call carries the newly
\* current tenant's id in its tenant header, while its endpoint and timeout stay
\* those bound at client construction.
C12_SwitchTakesEffectOnHeader ==
    [][/\ \A tenantId \in SwitchArgs \cap TenantId :
             LoadTenant(tenantId) => currentTenant' = tenantId
       /\ \A r \in Slots :
             FirstSend(r) =>
                 /\ requests'[r].sent.headers.XTenantID = tenantConfigs[currentTenant].id
                 /\ requests'[r].sent.baseURL = client.baseURL
                 /\ requests'[r].sent.timeout = client.timeout]_vars

\* A call sent before the switch is still in flight under the default tenant's
\* header, and the call issued after loadTenant("tenant-3") carries tenant-3's.
C12_Witness ==
    \E r1, r2 \in Slots :
        /\ requests[r1].pc = "inflight"
        /\ requests[r1].sent.headers.XTenantID = "default"
        /\ requests[r2].pc = "inflight"
        /\ requests[r2].attempts = 1
        /\ requests[r2].sent.headers.XTenantID = "tenant-3"
        /\ requests[r2].sent.baseURL = requests[r1].sent.baseURL

\* The resolver's two states.
Unresolved == currentTenant = Null

Resolved == currentTenant \in TenantId

\* C13 as stated: loadTenant of an id the table does not have, or of no id,
\* returns the `default` descriptor and makes it current.
C13_UnknownIdLoadsDefault ==
    [][\A tenantId \in LoadTenantArgs \ TenantId :
          LoadTenantReturning(tenantId) =>
              /\ tenantLog'.returned = "default"
              /\ currentTenant' = "default"]_vars

\* C13, amended: loadTenant of an id the table does not have, or of no id,
\* returns without raising the descriptor of the configured default tenant (the
\* one EXPO_PUBLIC_TENANT_ID names when the table has it, `default` otherwise) and
\* makes it current, whatever tenant was current before.
C13_UnknownIdLoadsConfiguredDefault ==
    [][\A tenantId \in LoadTenantArgs \ TenantId :
          LoadTenantReturning(tenantId) =>
              LET configured == IF envTenantId \in TenantId THEN envTenantId
                                                           ELSE "default"
              IN  /\ tenantLog'.op = "loadTenant"
                  /\ tenantLog'.returned = tenantConfigs[configured].id
                  /\ currentTenant' = tenantLog'.returned]_vars

\* With EXPO_PUBLIC_TENANT_ID = tenant-1, loadTenant("tenant-9") returned
\* tenant-1's descriptor.
C13_Witness ==
    /\ envTenantId = "tenant-1"
    /\ tenantLog.op = "loadTenant"
    /\ tenantLog.arg = "tenant-9"
    /\ tenantLog.returned = "tenant-1"
    /\ currentTenant = "tenant-1"

\* C14: loadTenant of an id of the table returns that id's descriptor and makes it
\* current, and every getCurrentTenant call made while that load is the last one
\* returns the descriptor whose id is the requested id.
C14_KnownIdLoadsIt ==
    [][/\ \A tenantId \in TenantId :
             LoadTenantReturning(tenantId) =>
                 /\ tenantConfigs[tenantLog'.returned].id = tenantId
                 /\ currentTenant' = tenantLog'.returned
       /\ (tenantLog'.op = "getCurrentTenant" /\ tenantLog'.lastLoad \in TenantId) =>
             tenantConfigs[tenantLog'.returned].id = tenantLog'.lastLoad]_vars

\* Under EXPO_PUBLIC_TENANT_ID = tenant-1, getCurrentTenant after
\* loadTenant("tenant-2") returned tenant-2's descriptor.
C14_Witness ==
    /\ envTenantId = "tenant-1"
    /\ tenantLog.op = "getCurrentTenant"
    /\ tenantLog.lastLoad = "tenant-2"
    /\ tenantLog.returned = "tenant-2"

\* C15: a getCurrentTenant call returns the descriptor the previous
\* getCurrentTenant call returned when no loadTenant came in between, also when
\* the previous call was the one that resolved the default.
C15_GetCurrentTenantIdempotent ==
    [][(tenantLog'.op = "getCurrentTenant" /\ tenantLog.lastGot # "none"
          /\ tenantLog'.lastLoad = tenantLog.lastLoad) =>
          tenantLog'.returned = tenantLog.lastGot]_vars

\* The first getCurrentTenant call resolved the default from Unresolved, a lookup
\* followed, and the descriptor is still the current one.
C15_Witness ==
    /\ tenantLog.lastLoad = "none"
    /\ tenantLog.op \in {"isFeatureEnabled", "hasPermission"}
    /\ tenantLog.lastGot = "tenant-1"
    /\ currentTenant = "tenant-1"

\* C16: the resolver is Unresolved or Resolved, in Resolved the current tenant is
\* one descriptor of the table, every TenantLoader call (loadTenant,
\* getCurrentTenant, isFeatureEnabled, hasPermission, the client's constructor)
\* leaves it Resolved, and no step takes it from Resolved back to Unresolved.
C16_UnresolvedThenResolved ==
    [][/\ Unresolved \/ Resolved
       /\ Resolved => currentTenant = tenantConfigs[currentTenant].id
       /\ (tenantLog' # tenantLog \/ client' # client) => Resolved'
       /\ Resolved => Resolved']_vars

\* The first call was a lookup, made from Unresolved under an
\* EXPO_PUBLIC_TENANT_ID the table does not have; it resolved `default`.
C16_Witness ==
    /\ envTenantId = "tenant-9"
    /\ tenantLog.op = "hasPermission"
    /\ tenantLog.lastLoad = "none"
    /\ tenantLog.lastGot = "none"
    /\ client = Unconstructed
    /\ Resolved
    /\ currentTenant = "default"

\* A step in which application code made a lookup call.
LookupStep ==
    /\ tenantLog'.op \in {"isFeatureEnabled", "hasPermission"}
    /\ tenantLog' # tenantLog

\* C17: isFeatureEnabled and hasPermission return what the current tenant's
\* featureFlags / permissions map records for the key, false for a key the map
\* does not have, and leave the current tenant as it is once one is resolved.
C17_LookupsDenyByDefault ==
    [][LookupStep =>
          LET key == tenantLog'.arg
              map == IF tenantLog'.op = "isFeatureEnabled"
                         THEN tenantConfigs[currentTenant'].featureFlags
                         ELSE tenantConfigs[currentTenant'].permissions
          IN  /\ key \in DOMAIN map => tenantLog'.value = map[key]
              /\ key \notin DOMAIN map => tenantLog'.value = FALSE
              /\ Resolved => currentTenant' = currentTenant]_vars

\* Under tenant-2, which grants nearly everything, a flag the descriptor does not
\* record was reported disabled.
C17_Witness ==
    /\ currentTenant = "tenant-2"
    /\ tenantLog.lastLoad = "tenant-2"
    /\ tenantLog.op = "isFeatureEnabled"
    /\ tenantLog.arg = "enableBetaFeatures"
    /\ tenantLog.value = FALSE

\* C18: in every state, and so for every request that goes out and every
\* quiescent state, the two credentials are held together or absent together.
C18_CredentialPairAtomic ==
    (accessToken = Null) <=> (refreshToken = Null)

\* C19: a request that is on the wire stays as it was sent, Authorization header
\* included, through every step that does not settle it, the steps that clear the
\* credentials among them; and what was sent is the config the request keeps.
C19_InFlightKeepsCapturedToken ==
    [][\A r \in Slots :
          (requests[r].pc = "inflight" /\ requests'[r].pc = "inflight") =>
              /\ requests'[r].sent = requests[r].sent
              /\ requests'[r].sent.headers = requests'[r].config.headers]_vars

\* The credentials were cleared while a request sent with Bearer A1 is still on
\* the wire.
C19_Witness ==
    \E r \in Slots :
        /\ accessToken = Null
        /\ refreshToken = Null
        /\ requests[r].pc = "inflight"
        /\ Has(requests[r].sent.headers, "Authorization")
        /\ requests[r].sent.headers.Authorization = Bearer("A1")

\* C20: with tenant-3 current (enableCaching = false) every new call goes out on
\* the wire, and a call resolves only in the step in which the answer to its own
\* send arrives, with that answer's body.
C20_NoResponseCache ==
    [][\A r \in Slots :
          (currentTenant' = "tenant-3"
              /\ ~tenantConfigs[currentTenant'].api.enableCaching) =>
              /\ (requests[r] = Idle /\ requests'[r] # Idle) =>
                    /\ requests'[r].pc = "inflight"
                    /\ requests'[r].attempts = 1
                    /\ requests'[r].sent.headers.XTenantID = "tenant-3"
              /\ (requests[r].pc # "resolved" /\ requests'[r].pc = "resolved") =>
                    /\ requests[r].pc = "inflight"
                    /\ requests'[r].attempts >= 1
                    /\ requests'[r].result.data = requests'[r].response.data]_vars

\* Under tenant-3 two calls resolved, each with the body of its own answer.
C20_Witness ==
    \E r1, r2 \in Slots :
        /\ currentTenant = "tenant-3"
        /\ requests[r1].pc = "resolved"
        /\ requests[r1].result.data = [value |-> "b1"]
        /\ requests[r2].pc = "resolved"
        /\ requests[r2].result.data = [value |-> "b2"]

\* C21: refreshAccessToken never raises.  When no refresh token is held it
\* returns null at once, without a refresh call; otherwise its call settles and
\* it returns the access token of a 2xx answer that has one and null in every
\* other case, the handler then falling through to the original 401.
C21_RefreshReturnsTokenOrNull ==
    [][\A r \in Slots :
          /\ (requests[r].pc = "inflight" /\ requests'[r].pc = "refreshing") =>
                /\ refreshToken # Null
                /\ requests'[r].refreshCall.refreshToken = refreshToken
          /\ (requests[r].pc = "inflight" /\ requests'[r].pc = "rejected"
                /\ requests'[r].refreshes > requests[r].refreshes) =>
                /\ refreshToken = Null
                /\ ~Has(requests'[r], "refreshOutcome")
                /\ requests'[r].error = HttpError(401, Empty)
          /\ (requests[r].pc = "refreshing" /\ requests'[r].pc # "refreshing") =>
                LET outcome == requests'[r].refreshOutcome
                IN  IF Has(outcome, "data") /\ Has(outcome.data, "accessToken")
                          /\ outcome.data.accessToken # ""
                        THEN /\ requests'[r].pc = "inflight"
                             /\ accessToken' = outcome.data.accessToken
                        ELSE /\ requests'[r].pc = "rejected"
                             /\ requests'[r].error = requests[r].error
                             /\ accessToken' = accessToken]_vars

\* One call was rejected after its refresh call met a network failure, another
\* after a 401 with no refresh token held and so without a refresh call.
C21_Witness ==
    \E r1, r2 \in Slots :
        /\ requests[r1].pc = "rejected"
        /\ Has(requests[r1], "refreshOutcome")
        /\ requests[r1].refreshOutcome = NetworkError
        /\ requests[r2].pc = "rejected"
        /\ requests[r2].refreshes = 1
        /\ ~Has(requests[r2], "refreshOutcome")

\* C22: the refresh call is made outside the client's pipeline.  While it is
\* outstanding nothing about the call changes, and when it fails, a 401 answer
\* included, the call is rejected in that step: no second refresh call, no
\* resend of the refresh call, no resubmission of the request.
C22_RefreshDoesNotRecurse ==
    [][\A r \in Slots :
          requests[r].pc = "refreshing" =>
              /\ requests'[r].refreshes = 1
              /\ requests'[r].pc = "refreshing" => requests'[r] = requests[r]
              /\ (requests'[r].pc # "refreshing"
                    /\ ~Has(requests'[r].refreshOutcome, "data")) =>
                    /\ requests'[r].pc = "rejected"
                    /\ requests'[r].attempts = 1]_vars

\* The refresh endpoint answered 401 and the call ended there.
C22_Witness ==
    \E r \in Slots :
        /\ requests[r].pc = "rejected"
        /\ Has(requests[r], "refreshOutcome")
        /\ requests[r].refreshOutcome = HttpError(401, Empty)
        /\ requests[r].refreshes = 1
        /\ requests[r].attempts = 1

\* The refresh calls that are outstanding.
RefreshCallsInFlight == {r \in Slots : requests[r].pc = "refreshing"}

\* C23: the already-retried marker belongs to the request.  A step changes one
\* request only, and a first 401 that arrives while a refresh token is held
\* starts a refresh call of that request's own, whatever the other requests are
\* doing: such a 401 ends the call directly only when no refresh token is held.
C23_RefreshPerRequest ==
    [][/\ \A r, q \in Slots :
             (r # q /\ requests'[r] # requests[r]) => requests'[q] = requests[q]
       /\ \A r \in Slots :
             (requests[r].pc = "inflight" /\ requests[r].attempts = 1
                 /\ requests'[r].pc = "rejected" /\ Is401(requests'[r].error)) =>
                 /\ requests'[r].retry
                 /\ refreshToken = Null
       /\ \A r \in Slots :
             (requests[r].pc = "inflight" /\ requests'[r].pc = "refreshing") =>
                 /\ ~requests[r].config.retry
                 /\ Cardinality(RefreshCallsInFlight') = Cardinality(RefreshCallsInFlight) + 1]_vars

\* Every outstanding request has its own refresh call in flight, each made with
\* the refresh token R1.
C23_Witness ==
    /\ RefreshCallsInFlight = Slots
    /\ \A r \in Slots : requests[r].refreshCall.refreshToken = "R1"
    /\ \A r \in Slots : requests[r].refreshes = 1

\* C24: the refresh token is set by login only and cleared by clearTokens only, so
\* it is absent exactly when clearTokens has run with no login completed since
\* (or nobody has logged in).  From then on the access token stays absent and no
\* request that goes out carries an Authorization header, also when a refresh
\* call started earlier answers with a token.
C24_NoTokenAfterLogout ==
    [][(refreshToken = Null /\ refreshToken' = Null) =>
          /\ accessToken' = Null
          /\ \A r \in Slots :
                Sends(r) => ~Has(requests'[r].sent.headers, "Authorization")]_vars

\* C25: a resubmitted request carries the access token its own refresh call
\* returned, and keeps carrying it when another request's refresh call completes
\* later with a different token; each completing refresh call overwrites the
\* stored access token, so the one stored at the end is the last one's.
C25_OwnTokenLastStored ==
    [][/\ \A r \in Slots :
             (requests[r].pc = "refreshing" /\ requests'[r].pc = "inflight") =>
                 accessToken' = requests'[r].refreshOutcome.data.accessToken
       /\ \A r \in Slots :
             (requests'[r].pc = "inflight" /\ requests'[r].attempts = 2) =>
                 requests'[r].sent.headers.Authorization =
                     Bearer(requests'[r].refreshOutcome.data.accessToken)
       /\ (accessToken' # accessToken) =>
             \E r \in Slots :
                 /\ requests[r].pc \in {"inflight", "refreshing"}
                 /\ requests'[r].pc \in {"inflight", "resolved"}
                 /\ requests'[r] # requests[r]]_vars

\* Two requests refreshed concurrently: one was resubmitted with A2, the other,
\* whose refresh call completed last, with A3, and A3 is the stored token.
C25_Witness ==
    \E r1, r2 \in Slots :
        /\ requests[r1].pc = "inflight"
        /\ requests[r1].attempts = 2
        /\ requests[r1].sent.headers.Authorization = Bearer("A2")
        /\ requests[r2].pc = "inflight"
        /\ requests[r2].attempts = 2
        /\ requests[r2].sent.headers.Authorization = Bearer("A3")
        /\ accessToken = "A3"

\* C26: the refresh call of a request is addressed to the endpoint the request
\* itself was sent to, the one the client is bound to, whatever loadTenant calls
\* came in between.
C26_RefreshGoesToClientEndpoint ==
    \A r \in Slots :
        requests[r].pc = "refreshing" =>
            /\ requests[r].refreshCall.baseUrl = requests[r].sent.baseURL
            /\ requests[r].refreshCall.baseUrl = client.baseURL

C28_StoreTokensEqualClientTokens ==
    (\A r \in Slots : requests[r].pc \notin {"inflight", "refreshing"}) =>
        /\ auth.accessToken = accessToken
        /\ auth.refreshToken = refreshToken

\* C29: a call never has more than two sends or more than one refresh call
\* behind it, and, the transport answering every send and every refresh call,
\* every call that is under way eventually resolves or rejects.
C29_EveryCallSettles ==
    /\ [](\A r \in Slots :
            requests[r].pc # "idle" =>
                requests[r].attempts <= 2 /\ requests[r].refreshes <= 1)
    /\ \A r \in Slots :
          (requests[r].pc \in {"inflight", "refreshing"}) ~> Settled(requests[r])

\* Every call has settled, one of them resolved after a refresh call and a second
\* send, another rejected after a refresh call and a second send.
C29_Witness ==
    \E r1, r2 \in Slots :
        /\ \A r \in Slots : Settled(requests[r])
        /\ requests[r1].pc = "resolved"
        /\ requests[r1].attempts = 2
        /\ requests[r1].refreshes = 1
        /\ requests[r2].pc = "rejected"
        /\ requests[r2].attempts = 2
        /\ requests[r2].refreshes = 1

\* C30: the buffer never holds more than 100 entries; a call that shouldLog lets
\* through puts its entry last and keeps what was there in the order it had,
\* minus the oldest entry when the buffer was full; a call that shouldLog filters
\* out leaves the buffer as it was; the entries stay in the order of their
\* recording.
C30_BufferBounded ==
    [][/\ Len(logs') <= 100
       /\ \A i \in 1..(Len(logs') - 1) : logs'[i].timestamp < logs'[i + 1].timestamp
       /\ now' # now =>
             IF environmentConfig.enableLogging
                 THEN /\ logs' # <<>>
                      /\ logs'[Len(logs')].timestamp = now
                      /\ logs'[Len(logs')].level = LevelAt(now)
                      /\ SubSeq(logs', 1, Len(logs') - 1) =
                            IF Len(logs) = 100 THEN SubSeq(logs, 2, 100) ELSE logs
                 ELSE logs' = logs]_vars

\* 102 entries were recorded and the buffer holds the last 100 of them, oldest
\* first.
C30_Witness ==
    /\ now = 102
    /\ Len(logs) = 100
    /\ logs[1].timestamp = 2
    /\ logs[100].timestamp = 101

====
